---- MODULE Spec2Model ----
(***************************************************************************)
(* Model of widgets/scroll_area.rs: the scroll state (StatefulScrollState), *)
(* the two scroll areas (ScrollArea, StatefulScrollArea) and the helper     *)
(* `scroll` that copies a part of the inner buffer into the outer buffer.   *)
(*                                                                         *)
(* Coordinates are u16.  Rust's `+`, `-` and `*` on u16 panic on overflow   *)
(* when overflow checks are compiled in and wrap modulo 2^16 otherwise;     *)
(* both outcomes are modelled.  Indexing a Vec out of range panics.         *)
(*                                                                         *)
(* The outer buffer is kept sparsely: `outer_buf` maps the flat indices of  *)
(* the cells written so far to their value, every other cell still holds    *)
(* its initial value.  The outer buffer's area has its origin at (0, 0).    *)
(***************************************************************************)
EXTENDS Integers, Naturals, Sequences, FiniteSets, TLC

\* Largest value of the coordinate type u16.
U16Max == 65535
U16Mod == U16Max + 1

\* Largest width and height of the outer rectangle that is enumerated.
MaxDim == 2
\* Scroll offsets are kept at most MaxScroll, or at u16::MAX.
MaxScroll == 1

Min(a, b) == IF a <= b THEN a ELSE b
Max(a, b) == IF a >= b THEN a ELSE b

(***************************************************************************)
(* u16 arithmetic                                                          *)
(***************************************************************************)
\* u16 `a + b`: the wrapped value and whether the true sum overflowed.
Add16(a, b) == [val |-> (a + b) % U16Mod, ovf |-> a + b > U16Max]
\* u16 `a - b`.
Sub16(a, b) == [val |-> (a - b) % U16Mod, ovf |-> a - b < 0]
\* u16 `a * b`.
Mul16(a, b) == [val |-> (a * b) % U16Mod, ovf |-> a * b > U16Max]

\* u16::wrapping_add, what an unsaturated `+` gives in a build that wraps.
WrappingAdd(a, n) == (a + n) % U16Mod
\* u16::saturating_add
SaturatingAdd(a, n) == IF a + n > U16Max THEN U16Max ELSE a + n

\* u16::wrapping_sub, what an unsaturated `-` gives in a build that wraps.
WrappingSub(a, n) == (a - n) % U16Mod
\* u16::saturating_sub
SaturatingSub(a, n) == IF a - n < 0 THEN 0 ELSE a - n

(***************************************************************************)
(* Rectangles and buffers                                                  *)
(***************************************************************************)
\* Rect::new: width and height are limited so that right and bottom fit u16.
RectNew(x, y, w, h) ==
    [x |-> x, y |-> y,
     width  |-> IF w > U16Max - x THEN U16Max - x ELSE w,
     height |-> IF h > U16Max - y THEN U16Max - y ELSE h]

\* Number of cells of a buffer covering `area` (Buffer::empty).
BufLen(area) == area.width * area.height

\* The cell the inner widget draws at (x, y) of its canvas: every cell of the
\* canvas is different.
WidgetCell(x, y) == <<x, y>>

\* inner_buf.content[i] after the inner widget rendered into the whole inner
\* area: row-major with stride inner.width.
InnerContent(inner, i) == WidgetCell(i % inner.width, i \div inner.width)

\* Value of the cell of a (sparse) buffer content at flat index i; a cell
\* not written yet holds what the buffer started with, which no widget draws.
InitCell == << >>
CellAt(content, i) == IF i \in DOMAIN content THEN content[i] ELSE InitCell

\* content[i] = v
Store(content, i, v) == [j \in DOMAIN content \cup {i} |-> IF j = i THEN v ELSE content[j]]

(***************************************************************************)
(* The helper `scroll`                                                     *)
(***************************************************************************)
\* let pos = (min(scroll.0, outer.width), min(scroll.1, outer.height))
ClampPos(offset, outer_rect) ==
    <<Min(offset[1], outer_rect.width), Min(offset[2], outer_rect.height)>>

\* `cut` with the width and height of the outer area not reduced by pos.
CutIgnoresPos(p, outer_rect, inner_rect) ==
    RectNew(p[1], p[2],
            IF inner_rect.width >= outer_rect.width THEN outer_rect.width ELSE inner_rect.width,
            IF inner_rect.height >= outer_rect.height THEN outer_rect.height ELSE inner_rect.height)

\* `cut` without the test for an inner area smaller than the outer one.
CutIgnoresInner(p, outer_rect, inner_rect) ==
    RectNew(p[1], p[2], Sub16(outer_rect.width, p[1]).val, Sub16(outer_rect.height, p[2]).val)

\* let cut = Rect::new(pos.0, pos.1, if .. { outer.width - pos.0 } else { inner.width }, ..)
Cut(p, outer_rect, inner_rect) ==
    RectNew(p[1], p[2],
            IF inner_rect.width >= outer_rect.width
                THEN Sub16(outer_rect.width, p[1]).val ELSE inner_rect.width,
            IF inner_rect.height >= outer_rect.height
                THEN Sub16(outer_rect.height, p[2]).val ELSE inner_rect.height)

\* Whether one of the two subtractions of `cut` overflows.
CutOverflows(p, outer_rect, inner_rect) ==
    \/ inner_rect.width >= outer_rect.width /\ Sub16(outer_rect.width, p[1]).ovf
    \/ inner_rect.height >= outer_rect.height /\ Sub16(outer_rect.height, p[2]).ovf

\* One iteration of the inner loop `for x in 0..cut.width` and the ones after
\* it.  c holds what the loop does not change; acc is the outer buffer's
\* content so far, whether an operation overflowed, whether the call
\* panicked, the reads of inner_buf.content (loop x, loop y, flat index used,
\* in range or not) and the outer cells written (flat index, value).
\* The assigned value (the read of inner_buf) is evaluated before the index
\* of the assignee.
RECURSIVE CopyRow(_, _, _, _, _)
CopyRow(c, y, outer_y, x, acc) ==
    IF acc.panic \/ x >= c.cut.width THEN acc
    ELSE LET ox  == Add16(c.outer.x, x)
             ry  == Mul16(y, c.inner.width)
             ri  == Add16(ry.val, x)
             wy  == Mul16(outer_y, c.outer.width)
             wi  == Add16(wy.val, ox.val)
             rovf == ox.ovf \/ ry.ovf \/ ri.ovf
             wovf == wy.ovf \/ wi.ovf
             indexed == ~(c.checks /\ rovf)
             read == indexed /\ ri.val < BufLen(c.inner)
             write == read /\ ~(c.checks /\ wovf) /\ wi.val < c.outer_len
         IN  CopyRow(c, y, outer_y, x + 1,
                [content |-> IF write
                                THEN Store(acc.content, wi.val, InnerContent(c.inner, ri.val))
                                ELSE acc.content,
                 ovf   |-> acc.ovf \/ rovf \/ (read /\ wovf),
                 panic |-> ~write,
                 reads |-> IF indexed THEN acc.reads \cup {<<x, y, ri.val>>} ELSE acc.reads,
                 writes |-> IF write
                                THEN acc.writes \cup {<<wi.val, InnerContent(c.inner, ri.val)>>}
                                ELSE acc.writes])

\* The outer loop `for y in 0..cut.height`.
RECURSIVE CopyRows(_, _, _)
CopyRows(c, y, acc) ==
    IF acc.panic \/ y >= c.cut.height THEN acc
    ELSE LET oy == Add16(c.outer.y, y)
         IN  CopyRows(c, y + 1,
                CopyRow(c, y, oy.val, 0,
                    [acc EXCEPT !.ovf = @ \/ oy.ovf, !.panic = c.checks /\ oy.ovf]))

\* fn scroll(scroll, outer, inner, inner_buf, outer_buf); `checks` says
\* whether the build panics on arithmetic overflow (otherwise it wraps).
scroll(checks, offset, outer_rect, inner_rect, outer_len, content) ==
    LET p    == ClampPos(offset, outer_rect)
        covf == CutOverflows(p, outer_rect, inner_rect)
        c    == [checks |-> checks, outer |-> outer_rect, inner |-> inner_rect,
                 cut |-> Cut(p, outer_rect, inner_rect), outer_len |-> outer_len]
    IN  CopyRows(c, 0, [content |-> content, ovf |-> covf,
                        panic |-> checks /\ covf, reads |-> {}, writes |-> {}])

(***************************************************************************)
(* State                                                                   *)
(***************************************************************************)
VARIABLES
    pos,        \* StatefulScrollState.pos, the pair (x, y)
    state,      \* StatefulScrollState.state, the nested widget's state
    inner,      \* ScrollArea.inner / StatefulScrollArea.inner: (width, height)
    outer,      \* the Rect `outer` the area is rendered at
    buf_area,   \* the area of the Buffer `outer_buf`
    outer_buf,  \* outer_buf.content: the cells written so far, by flat index
    panicked,   \* a render panicked
    last        \* the last call: its name, its argument, pos before it,
                \* whether the call before it was the same method (or, for a
                \* render, a render), and for a render whether arithmetic
                \* overflowed, what it read and what it wrote

vars == <<pos, state, inner, outer, buf_area, outer_buf, panicked, last>>

\* The scroll offsets that are enumerated: near 0, and u16::MAX.
PosVals == (0 .. MaxScroll) \cup {U16Max}
\* The arguments of the scroll_*_by calls.
Amounts == {1, U16Max}
\* Origins of the outer rectangle; the last row puts it at the end of a
\* buffer of u16::MAX rows.
OriginsX == {0, 1}
OriginsY == {0, U16Max - 1}
\* Sizes of the outer rectangle.
OuterWidths == 1 .. MaxDim
OuterHeights == 1 .. MaxDim
\* Sizes of the inner area: below, at and above the outer rectangle's.
InnerWidths == (1 .. MaxDim) \cup {U16Max}
InnerHeights == 1 .. MaxDim + 1

Call(op, n, p, again) ==
    [op |-> op, n |-> n, pos0 |-> p, again |-> again, ovf |-> FALSE, reads |-> {}, writes |-> {}]

Renders == {"ScrollArea::render", "StatefulScrollArea::render"}
IsRender(call) == call.op \in Renders

\* StatefulScrollState::new / default, an area to render and the buffer the
\* caller renders it to: the buffer ends at the right and bottom edge of the
\* rectangle `outer`.
Init ==
    /\ pos = <<0, 0>>
    /\ state = 0
    /\ inner \in InnerWidths \X InnerHeights
    /\ \E x \in OriginsX, y \in OriginsY, w \in OuterWidths, h \in OuterHeights :
        /\ x + w <= U16Max
        /\ y + h <= U16Max
        /\ outer = [x |-> x, y |-> y, width |-> w, height |-> h]
        /\ buf_area = [x |-> 0, y |-> 0, width |-> x + w, height |-> y + h]
    /\ outer_buf = << >>
    /\ panicked = FALSE
    /\ last = Call("new", 0, <<0, 0>>, FALSE)

(***************************************************************************)
(* StatefulScrollState: scrolling                                          *)
(***************************************************************************)
\* A call that leaves pos at p.
SetPos(op, n, p) ==
    /\ ~panicked
    /\ p[1] \in PosVals /\ p[2] \in PosVals
    /\ pos' = p
    /\ last' = Call(op, n, pos, last.op = op)
    /\ UNCHANGED <<state, inner, outer, buf_area, outer_buf, panicked>>

\* self.pos = (0, 0)
Reset == SetPos("reset", 0, <<0, 0>>)

\* self.pos.1 = self.pos.1.saturating_sub(n)
scroll_up_by(p, n) == <<p[1], SaturatingSub(p[2], n)>>
\* self.pos.0 = self.pos.0.saturating_add(n)
scroll_right_by(p, n) == <<SaturatingAdd(p[1], n), p[2]>>
\* self.pos.1 = self.pos.1.saturating_add(n)
scroll_down_by(p, n) == <<p[1], SaturatingAdd(p[2], n)>>
\* self.pos.0 = self.pos.0.saturating_sub(n)
scroll_left_by(p, n) == <<SaturatingSub(p[1], n), p[2]>>

ScrollUp == SetPos("scroll_up", 1, scroll_up_by(pos, 1))
ScrollUpBy == \E n \in Amounts : SetPos("scroll_up_by", n, scroll_up_by(pos, n))
ScrollRight == SetPos("scroll_right", 1, scroll_right_by(pos, 1))
ScrollRightBy == \E n \in Amounts : SetPos("scroll_right_by", n, scroll_right_by(pos, n))
ScrollDown == SetPos("scroll_down", 1, scroll_down_by(pos, 1))
ScrollDownBy == \E n \in Amounts : SetPos("scroll_down_by", n, scroll_down_by(pos, n))
ScrollLeft == SetPos("scroll_left", 1, scroll_left_by(pos, 1))
ScrollLeftBy == \E n \in Amounts : SetPos("scroll_left_by", n, scroll_left_by(pos, n))

(***************************************************************************)
(* ScrollArea and StatefulScrollArea: render                               *)
(***************************************************************************)
\* pos had render stored the clamped offset back into the state.
RenderPosClamped(p) == ClampPos(p, outer)
\* What render leaves in the scroll state's pos: `scroll` gets a copy of it.
RenderPos(p) == p

\* The outcomes of `scroll` in the builds there are: the one that wraps on
\* overflow and, when an operation does overflow, the one that panics on it.
ScrollOutcomes(offset, outer_rect, inner_rect, outer_len, content) ==
    LET wrapped == scroll(FALSE, offset, outer_rect, inner_rect, outer_len, content)
    IN  IF wrapped.ovf
            THEN {wrapped, scroll(TRUE, offset, outer_rect, inner_rect, outer_len, content)}
            ELSE {wrapped}

\* The body both render methods share: the inner area, the inner buffer the
\* widget rendered to, and the call of `scroll`.
Render(op) ==
    /\ ~panicked
    /\ \E r \in ScrollOutcomes(pos, outer, RectNew(0, 0, inner[1], inner[2]),
                               BufLen(buf_area), outer_buf) :
           /\ outer_buf' = r.content
           /\ panicked' = r.panic
           /\ last' = [op |-> op, n |-> 0, pos0 |-> pos, again |-> IsRender(last),
                       ovf |-> r.ovf, reads |-> r.reads, writes |-> r.writes]
    /\ pos' = RenderPos(pos)
    /\ UNCHANGED <<inner, outer, buf_area>>

\* <ScrollArea<W> as StatefulWidget>::render: the state is ().
ScrollAreaRender == Render("ScrollArea::render") /\ UNCHANGED state

\* <StatefulScrollArea<W> as StatefulWidget>::render: the nested widget gets
\* &mut state.state; the widget modelled draws the same cells whatever its
\* state and leaves it as it is.
StatefulScrollAreaRender == Render("StatefulScrollArea::render") /\ UNCHANGED state

Next ==
    \/ Reset
    \/ ScrollUp
    \/ ScrollUpBy
    \/ ScrollRight
    \/ ScrollRightBy
    \/ ScrollDown
    \/ ScrollDownBy
    \/ ScrollLeft
    \/ ScrollLeftBy
    \/ ScrollAreaRender
    \/ StatefulScrollAreaRender

Spec == Init /\ [][Next]_vars

(***************************************************************************)
(* Properties                                                              *)
(***************************************************************************)
\* Buffer::pos_of / Buffer::index_of for the outer buffer.
GridX(i) == buf_area.x + (i % buf_area.width)
GridY(i) == buf_area.y + (i \div buf_area.width)
IndexOf(x, y) == (y - buf_area.y) * buf_area.width + (x - buf_area.x)

InOuter(x, y) ==
    /\ outer.x <= x /\ x < outer.x + outer.width
    /\ outer.y <= y /\ y < outer.y + outer.height

\* The cell of the outer buffer at (x, y) relative to the outer rectangle.
OuterCell(x, y) == CellAt(outer_buf, IndexOf(outer.x + x, outer.y + y))

\* The window of the blit as the formulae give it, over the integers.
Px == Min(last.pos0[1], outer.width)
Py == Min(last.pos0[2], outer.height)
Cw == IF inner[1] >= outer.width THEN outer.width - Px ELSE inner[1]
Ch == IF inner[2] >= outer.height THEN outer.height - Py ELSE inner[2]

\* C1: a render modifies no cell of the outer buffer whose grid position lies
\* outside the outer rectangle.
C1_WritesOnlyInsideOuter ==
    \A i \in DOMAIN outer_buf : InOuter(GridX(i), GridY(i))

\* C2: after a render with the inner canvas larger than the outer rectangle
\* and the offset (sx, sy) inside the canvas, the outer cell at (x, y) of the
\* rectangle holds the inner cell at (sx + x, sy + y).
C2_OffsetPositionsView ==
    (/\ IsRender(last) /\ ~panicked
     /\ inner[1] > outer.width /\ inner[2] > outer.height
     /\ pos[1] < inner[1] /\ pos[2] < inner[2])
    => \A x \in 0 .. outer.width - 1, y \in 0 .. outer.height - 1 :
          (pos[1] + x < inner[1] /\ pos[2] + y < inner[2])
          => OuterCell(x, y) = WidgetCell(pos[1] + x, pos[2] + y)

\* C3: after a render with the inner size equal to the outer size and offset
\* (0, 0), every cell (x, y) of the outer rectangle equals the inner cell
\* (x, y), wherever the rectangle lies in the outer buffer.
C3_IdentityCopy ==
    (/\ IsRender(last) /\ ~panicked
     /\ inner[1] = outer.width /\ inner[2] = outer.height
     /\ pos = <<0, 0>>)
    => \A x \in 0 .. outer.width - 1, y \in 0 .. outer.height - 1 :
          OuterCell(x, y) = WidgetCell(x, y)

\* C4: no sum, difference or product of a call leaves the u16 range.
C4_NoOverflow == ~last.ovf

\* C5 as claimed: a render with sx >= Wo or sy >= Ho writes no cell, for
\* every inner size.
C5_OffsetBeyondOuterWritesNothing ==
    (IsRender(last) /\ (last.pos0[1] >= outer.width \/ last.pos0[2] >= outer.height))
    => last.writes = {}

\* C5 amended: when sx >= Wo and Wi >= Wo, or sy >= Ho and Hi >= Ho, the offset
\* is clamped to the outer size on that axis, the copy region `cut` has no
\* cell, and the render writes no cell and leaves the outer buffer as it was.
C5_OffsetBeyondOuterOfLargerInner ==
    [][(/\ IsRender(last')
        /\ \/ pos[1] >= outer.width /\ inner[1] >= outer.width
           \/ pos[2] >= outer.height /\ inner[2] >= outer.height)
       => LET p == ClampPos(pos, outer)
              cut == Cut(p, outer, RectNew(0, 0, inner[1], inner[2]))
          IN  /\ p[1] = outer.width \/ p[2] = outer.height
              /\ cut.width * cut.height = 0
              /\ last'.writes = {}
              /\ outer_buf' = outer_buf]_vars

\* A render with sx >= Wo of an inner area at least as wide as the outer one
\* came after one that did write to the outer buffer.
C5_Witness ==
    /\ IsRender(last) /\ ~panicked
    /\ last.pos0[1] >= outer.width /\ inner[1] >= outer.width
    /\ last.pos0[2] < outer.height
    /\ outer_buf # << >>

\* C6: each scroll call has the saturating effect on its own coordinate and
\* leaves the other alone, reset gives (0, 0), and scrolling up or left at
\* (0, 0) stays at (0, 0).
C6_MutatorsSaturate ==
    LET p == last.pos0
        n == last.n
    IN  /\ last.op \in {"scroll_up", "scroll_right", "scroll_down", "scroll_left"} => n = 1
        /\ last.op \in {"scroll_up", "scroll_up_by"} => pos = <<p[1], Max(p[2] - n, 0)>>
        /\ last.op \in {"scroll_down", "scroll_down_by"} => pos = <<p[1], Min(p[2] + n, U16Max)>>
        /\ last.op \in {"scroll_left", "scroll_left_by"} => pos = <<Max(p[1] - n, 0), p[2]>>
        /\ last.op \in {"scroll_right", "scroll_right_by"} => pos = <<Min(p[1] + n, U16Max), p[2]>>
        /\ last.op = "reset" => pos = <<0, 0>>
        /\ (p = <<0, 0>> /\ last.op \in {"scroll_up", "scroll_up_by", "scroll_left", "scroll_left_by"})
            => pos = <<0, 0>>

\* scroll_up_by(n) with n above the offset pinned a non-zero sy to 0.
C6_Witness ==
    /\ last.op = "scroll_up_by"
    /\ last.pos0[2] > 0 /\ last.n > last.pos0[2]
    /\ pos[2] = 0

\* C7: scroll_down_by(a) followed by scroll_down_by(b) leaves pos where one
\* scroll_down_by(min(a + b, 65535)) from the same start leaves it.
C7_DownByComposes ==
    [][(last.op = "scroll_down_by" /\ last'.op = "scroll_down_by")
       => pos' = <<last.pos0[1], Min(last.pos0[2] + Min(last.n + last'.n, U16Max), U16Max)>>]_vars

\* Two scroll_down_by calls in a row whose amounts add up to more than
\* u16::MAX, the first of which did not saturate.
C7_Witness ==
    /\ last.op = "scroll_down_by" /\ last.again
    /\ last.n = U16Max
    /\ last.pos0[2] > 0 /\ last.pos0[2] < U16Max
    /\ pos[2] = U16Max

\* C8: a render right after a render, with no scroll call in between, leaves
\* the outer buffer as the first one left it, and neither changes pos.
C8_RenderIdempotent ==
    [][(IsRender(last) /\ IsRender(last'))
       => (outer_buf' = outer_buf /\ pos = last.pos0 /\ pos' = pos)]_vars

\* A second render in a row that wrote cells, at a non-zero offset.
C8_Witness ==
    /\ IsRender(last) /\ last.again /\ ~panicked
    /\ last.writes # {}
    /\ pos # <<0, 0>>

\* C9: a render assigns outer cell (Oy+y)*Wo + (Ox+x) the inner cell y*Wi + x
\* for each y in 0..ch and x in 0..cw, and changes no other cell.
C9_BlitFollowsFormulae ==
    IsRender(last)
    => last.writes =
          {<<(outer.y + y) * outer.width + (outer.x + x),
             InnerContent(RectNew(0, 0, inner[1], inner[2]), y * inner[1] + x)>> :
                x \in 0 .. Cw - 1, y \in 0 .. Ch - 1}

\* C10: every inner cell a render reads has column x < Wi and row y < Hi, and
\* its flat index is below Wi * Hi.
C10_ReadsInsideInner ==
    \A r \in last.reads :
        /\ r[1] < inner[1] /\ r[2] < inner[2]
        /\ r[3] < inner[1] * inner[2]

\* A render read cells of an inner area that is wider but less high than the
\* outer rectangle.
C10_Witness ==
    /\ IsRender(last) /\ ~panicked
    /\ inner[1] > outer.width /\ inner[2] < outer.height
    /\ last.reads # {}

====
